---- MODULE Spec2Model ----
(***************************************************************************)
(* cdumay_context: the Context trait (src/src/context.rs), its reference   *)
(* implementation over BTreeMap<String, serde_value::Value>, the three     *)
(* format adapters (JSON, TOML, YAML) and the Error enum (src/src/error.rs)*)
(* with its From conversions.                                              *)
(*                                                                         *)
(* A context is a finite map from keys to tagged values.  A text is a      *)
(* sequence of key/lexeme entries (a lexeme is what the grammar of the     *)
(* format distinguishes: an integer literal carries no I64/U64 tag), or a  *)
(* text the parser rejects.  64-bit integers are scaled to Bits bits.      *)
(***************************************************************************)
EXTENDS Integers, Sequences, FiniteSets, TLC

VARIABLES data, written, ret, snap, hist

vars == <<data, written, ret, snap, hist>>

(***************************************************************************)
(* Bounds and samples                                                      *)
(***************************************************************************)
\* width of the widest integer tags (I64, U64), scaled down from 64
Bits == 3
\* the longest recorded history of writes
MaxHist == 3

I64Min == -(2 ^ (Bits - 1))
I64Max == (2 ^ (Bits - 1)) - 1
U64Max == (2 ^ Bits) - 1

\* keys in their natural (BTreeMap) order
KeySeq == <<"key1", "key2">>
Keys == {KeySeq[i] : i \in DOMAIN KeySeq}
\* keys a caller may look up; "non_existent" is never written
LookupKeys == Keys \cup {"non_existent"}

\* serde_value::Value, the scalar variants
\* an integer payload n or a text payload s (floats, strings, booleans)
V(tag, n, s) == [tag |-> tag, n |-> n, s |-> s]
Vn(tag, n) == V(tag, n, "")
Vs(tag, s) == V(tag, 0, s)
Unit == Vn("Unit", 0)
IntTags == {"I64", "U64"}
FloatTags == {"F64"}
ScalarValues ==
    {Vn("I64", -1), Vn("I64", 1), Vn("U64", 1), Vn("U64", I64Max + 1)}
    \cup {Vs("F64", "f_short"), Vs("F64", "f_long"), Vs("F64", "nan")}
    \cup {Vs("String", "test"), Vs("Bool", "true")}

\* the maps handed to extend
ExtendValues == {Vs("String", "test"), Vn("I64", 1), Vs("Bool", "true")}

MapsOver(vals) == UNION {[S -> vals] : S \in SUBSET Keys}
ExtendArgs == MapsOver(ExtendValues)

\* Option<&Value>
None == [some |-> FALSE]
Some(v) == [some |-> TRUE, v |-> v]

(***************************************************************************)
(* The Context trait, as implemented over BTreeMap                         *)
(***************************************************************************)
EmptyMap == [k \in {} |-> Unit]

\* a constructor that seeds an entry
NewSeeded == [k \in {"key1"} |-> Unit]

New == EmptyMap

\* entry(k).or_insert(v): an existing value is kept
InsertIfAbsent(d, k, v) ==
    [x \in DOMAIN d \cup {k} |-> IF x \in DOMAIN d THEN d[x] ELSE v]

\* an insert that drops every other entry
InsertClearsOthers(d, k, v) == [x \in {k} |-> v]

Insert(d, k, v) == [x \in DOMAIN d \cup {k} |-> IF x = k THEN v ELSE d[x]]

\* a lookup that answers a default for a missing key
GetOrDefault(d, k) == IF k \in DOMAIN d THEN Some(d[k]) ELSE Some(Unit)

Get(d, k) == IF k \in DOMAIN d THEN Some(d[k]) ELSE None

\* a merge in which the existing value wins
ExtendKeepExisting(d, m) ==
    [x \in DOMAIN d \cup DOMAIN m |-> IF x \in DOMAIN d THEN d[x] ELSE m[x]]

\* a merge that replaces the whole map
ExtendReplace(d, m) == m

\* a merge that takes only the first entry of the incoming map
ExtendFirstOnly(d, m) ==
    LET ks == SelectSeq(KeySeq, LAMBDA k : k \in DOMAIN m)
    IN  IF ks = << >> THEN d ELSE Insert(d, ks[1], m[ks[1]])

Extend(d, m) ==
    [x \in DOMAIN d \cup DOMAIN m |-> IF x \in DOMAIN m THEN m[x] ELSE d[x]]

\* a copy that loses the entry of "key2"
InnerPartial(d) == [x \in DOMAIN d \ {"key2"} |-> d[x]]

Inner(d) == [x \in DOMAIN d |-> d[x]]

(***************************************************************************)
(* Results, library errors and the Error enum (src/src/error.rs)           *)
(***************************************************************************)
Ok(v) == [kind |-> "Ok", val |-> v]
Err(e) == [kind |-> "Err", err |-> e]
\* the call does not return: Result::unwrap on an Err
Panic == [kind |-> "Panic"]

\* an error value of a format library, with its Display text
LibErr(lib, msg) == [lib |-> lib, msg |-> msg]
Libs == {"serde_json", "toml::ser", "toml::de", "serde_yaml",
         "InvalidHeaderValue", "InvalidHeaderName"}

\* enum Error { Generic, Json, Toml, Yaml, Http }, each carrying a String
Error(tag, msg) == [tag |-> tag, msg |-> msg]

FromSerdeJsonError(e) == Error("Json", e.msg)

FromTomlSerError(e) == Error("Toml", e.msg)

FromTomlDeError(e) == Error("Toml", e.msg)

\* the YAML adapter reporting under the JSON kind
FromSerdeYamlErrorAsJson(e) == Error("Json", e.msg)

FromSerdeYamlError(e) == Error("Yaml", e.msg)

FromInvalidHeaderValue(e) == Error("Http", e.msg)

FromInvalidHeaderName(e) == Error("Http", e.msg)

\* `.into()` / `?`: the From impl is selected by the library error's type
ErrorFrom(e) ==
    CASE e.lib = "serde_json" -> FromSerdeJsonError(e)
      [] e.lib = "toml::ser" -> FromTomlSerError(e)
      [] e.lib = "toml::de" -> FromTomlDeError(e)
      [] e.lib = "serde_yaml" -> FromSerdeYamlError(e)
      [] e.lib = "InvalidHeaderValue" -> FromInvalidHeaderValue(e)
      [] e.lib = "InvalidHeaderName" -> FromInvalidHeaderName(e)

(***************************************************************************)
(* Texts                                                                   *)
(***************************************************************************)
\* a lexeme: what the grammar tells apart ("int": digits with an optional
\* sign, no fraction and no exponent)
L(lex, n, s) == [lex |-> lex, n |-> n, s |-> s]
Ln(lex, n) == L(lex, n, "")
Ls(lex, s) == L(lex, 0, s)
Entry(k, lex) == [k |-> k, lex |-> lex]
Doc(layout, body) == [kind |-> "doc", layout |-> layout, body |-> body]
\* a text the parser rejects with message msg
Bad(msg) == [kind |-> "bad", msg |-> msg]

\* the keys in the order a history of writes first wrote them
RECURSIVE InsertionOrder(_)
InsertionOrder(h) ==
    IF h = << >> THEN << >>
    ELSE LET prev == InsertionOrder(SubSeq(h, 1, Len(h) - 1))
             seen == {prev[i] : i \in DOMAIN prev}
         IN  prev \o SelectSeq(KeySeq, LAMBDA k : k \in DOMAIN h[Len(h)].w /\ k \notin seen)

\* iteration in insertion order, as an insertion-ordered map would give
KeysOfInsertion(d) == SelectSeq(InsertionOrder(hist), LAMBDA k : k \in DOMAIN d)

\* BTreeMap iteration: the keys of d in their natural order
KeysOf(d) == SelectSeq(KeySeq, LAMBDA k : k \in DOMAIN d)

\* collecting parsed entries into a BTreeMap: the last entry of a key wins
BodyKeys(body) == {body[i].k : i \in DOMAIN body}
LastIdx(body, k) ==
    CHOOSE i \in DOMAIN body :
        /\ body[i].k = k
        /\ \A j \in DOMAIN body : body[j].k = k => j <= i
CollectMap(body) == [k \in BodyKeys(body) |-> body[LastIdx(body, k)].lex]
HasDuplicate(body) ==
    \E i, j \in DOMAIN body : i < j /\ body[i].k = body[j].k

FiniteFloat(f) == f \notin {"nan", "inf"}

(***************************************************************************)
(* JSON (serde_json)                                                       *)
(***************************************************************************)
\* serde_json::Value
J(j, n, s) == [j |-> j, n |-> n, s |-> s]

\* serde_json's Serializer on a serde_value::Value
SerializeJson(v) ==
    CASE v.tag \in IntTags -> Ln("int", v.n)
      [] v.tag \in FloatTags -> IF FiniteFloat(v.s) THEN Ls("float", v.s) ELSE Ln("null", 0)
      [] v.tag = "Bool" -> Ls("bool", v.s)
      [] v.tag = "String" -> Ls("str", v.s)
      [] v.tag = "Unit" -> Ln("null", 0)
      [] v.tag = "Map" -> Ln("obj", 0)

\* serde_json's number parser without the float_roundtrip feature: the
\* shortest representation of some doubles is read back one ulp off
JsonParseFloat(f) == IF f = "f_long" THEN "f_long_ulp" ELSE f

ParseJsonLexeme(l) ==
    CASE l.lex = "int" ->
            IF l.n >= 0
            THEN IF l.n <= U64Max THEN J("PosInt", l.n, "") ELSE J("Float", 0, "f_big")
            ELSE IF l.n >= I64Min THEN J("NegInt", l.n, "") ELSE J("Float", 0, "f_big")
      [] l.lex = "float" -> J("Float", 0, JsonParseFloat(l.s))
      [] l.lex = "null" -> J("Null", 0, "")
      [] l.lex = "bool" -> J("Bool", 0, l.s)
      [] l.lex = "str" -> J("String", 0, l.s)
      [] l.lex = "seq" -> J("Array", 0, "")
      [] l.lex = "obj" -> J("Object", 0, "")
      [] l.lex = "opaque" -> J("Opaque", 0, "")

\* serde_json::from_str::<BTreeMap<String, serde_json::Value>>
SerdeJsonFromStr(text) ==
    IF text.kind = "bad"
    THEN Err(LibErr("serde_json", text.msg))
    ELSE Ok([k \in BodyKeys(text.body) |-> ParseJsonLexeme(CollectMap(text.body)[k])])

\* a visitor that stores every integer as I64
DeserializeJsonValueSigned(n) ==
    CASE n.j \in {"PosInt", "NegInt"} -> Ok(Vn("I64", n.n))
      [] n.j = "Float" -> Ok(Vs("F64", n.s))
      [] n.j = "Null" -> Ok(Unit)
      [] n.j = "Bool" -> Ok(Vs("Bool", n.s))
      [] n.j = "String" -> Ok(Vs("String", n.s))
      [] n.j = "Array" -> Ok(Vn("Seq", 0))
      [] n.j = "Opaque" -> Err(LibErr("serde_json", "conversion"))

\* serde_value::Value::deserialize(serde_json::Value): the Result the
\* adapters unwrap.  Opaque stands for a native value on which the call
\* returns Err.
DeserializeJsonValue(n) ==
    CASE n.j = "PosInt" -> Ok(Vn("U64", n.n))
      [] n.j = "NegInt" -> Ok(Vn("I64", n.n))
      [] n.j = "Float" -> Ok(Vs("F64", n.s))
      [] n.j = "Null" -> Ok(Unit)
      [] n.j = "Bool" -> Ok(Vs("Bool", n.s))
      [] n.j = "String" -> Ok(Vs("String", n.s))
      [] n.j = "Array" -> Ok(Vn("Seq", 0))
      [] n.j = "Object" -> Ok(Vn("Map", 0))
      [] n.j = "Opaque" -> Err(LibErr("serde_json", "conversion"))

\* the conversion of every parsed entry: `.map(|(key, value)| (key,
\* Value::deserialize(value).unwrap())).collect()`
AnyErr(conv) == \E k \in DOMAIN conv : conv[k].kind = "Err"
Unwrapped(conv) == [k \in DOMAIN conv |-> conv[k].val]

FromJson(text) ==
    LET parsed == SerdeJsonFromStr(text)
    IN  IF parsed.kind = "Err"
        THEN Err(FromSerdeJsonError(parsed.err))
        ELSE LET conv == [k \in DOMAIN parsed.val |-> DeserializeJsonValue(parsed.val[k])]
             IN  IF AnyErr(conv) THEN Panic ELSE Ok(Extend(New, Unwrapped(conv)))

\* a serializer that ignores the pretty flag
ToJsonAlwaysCompact(d, pretty) ==
    LET m == Inner(d)
        ks == KeysOf(m)
    IN  Ok(Doc("compact", [i \in 1..Len(ks) |-> Entry(ks[i], SerializeJson(m[ks[i]]))]))

ToJson(d, pretty) ==
    LET m == Inner(d)
        ks == KeysOf(m)
    IN  Ok(Doc(IF pretty THEN "pretty" ELSE "compact",
               [i \in 1..Len(ks) |-> Entry(ks[i], SerializeJson(m[ks[i]]))]))

\* the line breaks of a JSON text: to_string writes `{"k":v,...}` on one line
\* with line breaks inside strings escaped, to_string_pretty writes `{`, one
\* line per entry and `}`, and `{}` for an empty map
JsonLineBreaks(text) ==
    IF text.layout = "pretty" /\ Len(text.body) > 0 THEN Len(text.body) + 1 ELSE 0

(***************************************************************************)
(* TOML (toml)                                                             *)
(***************************************************************************)
\* toml's Serializer on a serde_value::Value: integers are i64
SerializeToml(v) ==
    CASE v.tag = "I64" -> Ok(Ln("int", v.n))
      [] v.tag = "U64" ->
            IF v.n <= I64Max THEN Ok(Ln("int", v.n))
            ELSE Err(LibErr("toml::ser", "out of range"))
      [] v.tag \in FloatTags -> Ok(Ls("float", v.s))
      [] v.tag = "Bool" -> Ok(Ls("bool", v.s))
      [] v.tag = "String" -> Ok(Ls("str", v.s))
      [] v.tag = "Unit" -> Err(LibErr("toml::ser", "unsupported unit type"))
      [] v.tag = "Map" -> Ok(Ln("table", 0))

\* a parser that tags non-negative integers as unsigned
ParseTomlLexemeUnsigned(l) ==
    CASE l.lex = "int" ->
            IF l.n < I64Min \/ l.n > I64Max THEN Err(LibErr("toml::de", "invalid number"))
            ELSE IF l.n >= 0 THEN Ok(Vn("U64", l.n))
            ELSE Ok(Vn("I64", l.n))
      [] l.lex = "float" -> Ok(Vs("F64", l.s))
      [] l.lex = "bool" -> Ok(Vs("Bool", l.s))
      [] l.lex = "str" -> Ok(Vs("String", l.s))
      [] l.lex = "seq" -> Ok(Vn("Seq", 0))
      [] l.lex = "datetime" -> Ok(Vn("Map", 0))
      [] l.lex = "table" -> Ok(Vn("Map", 0))

\* toml's Deserializer driving serde_value's ValueVisitor
ParseTomlLexeme(l) ==
    CASE l.lex = "int" ->
            IF I64Min <= l.n /\ l.n <= I64Max THEN Ok(Vn("I64", l.n))
            ELSE Err(LibErr("toml::de", "invalid number"))
      [] l.lex = "float" -> Ok(Vs("F64", l.s))
      [] l.lex = "bool" -> Ok(Vs("Bool", l.s))
      [] l.lex = "str" -> Ok(Vs("String", l.s))
      [] l.lex = "seq" -> Ok(Vn("Seq", 0))
      [] l.lex = "datetime" -> Ok(Vn("Map", 0))
      [] l.lex = "table" -> Ok(Vn("Map", 0))

\* toml::from_str::<BTreeMap<String, serde_value::Value>>
TomlFromStr(text) ==
    IF text.kind = "bad"
    THEN Err(LibErr("toml::de", text.msg))
    ELSE IF HasDuplicate(text.body)
    THEN Err(LibErr("toml::de", "duplicate key"))
    ELSE LET p == [k \in BodyKeys(text.body) |-> ParseTomlLexeme(CollectMap(text.body)[k])]
         IN  IF AnyErr(p)
             THEN Err((p[CHOOSE k \in DOMAIN p : p[k].kind = "Err"]).err)
             ELSE Ok(Unwrapped(p))

\* serde_value::Value::deserialize(serde_value::Value): the value is visited
\* by its own tag and rebuilt
DeserializeValue(v) == Ok(V(v.tag, v.n, v.s))

\* a from_toml that answers an empty context when the parser fails
FromTomlLenient(text) ==
    LET parsed == TomlFromStr(text)
    IN  IF parsed.kind = "Err"
        THEN Ok(New)
        ELSE Ok(Extend(New, parsed.val))

FromToml(text) ==
    LET parsed == TomlFromStr(text)
    IN  IF parsed.kind = "Err"
        THEN Err(FromTomlDeError(parsed.err))
        ELSE LET conv == [k \in DOMAIN parsed.val |-> DeserializeValue(parsed.val[k])]
             IN  IF AnyErr(conv) THEN Panic ELSE Ok(Extend(New, Unwrapped(conv)))

\* a serializer whose pretty layout writes the first entry only
ToTomlPrettyFirstOnly(d, pretty) ==
    LET m == Inner(d)
        ks == KeysOf(m)
        ser == [k \in DOMAIN m |-> SerializeToml(m[k])]
        bad == SelectSeq(ks, LAMBDA k : ser[k].kind = "Err")
    IN  IF Len(bad) > 0
        THEN Err(FromTomlSerError(ser[bad[1]].err))
        ELSE IF pretty /\ Len(ks) > 0
        THEN Ok(Doc("pretty", << Entry(ks[1], ser[ks[1]].val) >>))
        ELSE Ok(Doc(IF pretty THEN "pretty" ELSE "compact",
                    [i \in 1..Len(ks) |-> Entry(ks[i], ser[ks[i]].val)]))

\* toml writes a table's plain `key = value` entries first and its
\* sub-tables (`[key]` sections) after them, each group in key order
ToToml(d, pretty) ==
    LET m == Inner(d)
        ks == KeysOf(m)
        ser == [k \in DOMAIN m |-> SerializeToml(m[k])]
        bad == SelectSeq(ks, LAMBDA k : ser[k].kind = "Err")
        out == SelectSeq(ks, LAMBDA k : ser[k].kind = "Ok" /\ ser[k].val.lex # "table")
                 \o SelectSeq(ks, LAMBDA k : ser[k].kind = "Ok" /\ ser[k].val.lex = "table")
    IN  IF Len(bad) > 0
        THEN Err(FromTomlSerError(ser[bad[1]].err))
        ELSE Ok(Doc(IF pretty THEN "pretty" ELSE "compact",
                    [i \in 1..Len(out) |-> Entry(out[i], ser[out[i]].val)]))

\* the line breaks of a TOML text: a top-level table is written one line per
\* entry (`key = value`, or `[key]` at least) by to_string and by
\* to_string_pretty alike
TomlLineBreaks(text) == Len(text.body)

(***************************************************************************)
(* YAML (serde_yaml, parsed into serde_json::Value)                        *)
(***************************************************************************)
\* serde_yaml's Serializer on a serde_value::Value
SerializeYaml(v) ==
    CASE v.tag \in IntTags -> Ln("int", v.n)
      [] v.tag \in FloatTags -> Ls("float", v.s)
      [] v.tag = "Bool" -> Ls("bool", v.s)
      [] v.tag = "String" -> Ls("str", v.s)
      [] v.tag = "Unit" -> Ln("null", 0)
      [] v.tag = "Map" -> Ln("map", 0)

\* serde_yaml's Deserializer driving serde_json::Value's visitor; a float
\* goes through Number::from_f64, which has no NaN and no infinity.
\* Integer lexemes are within 64 bits.
\* a parser that reads every integer as signed, wrapping the large ones
ParseYamlLexemeWrapping(l) ==
    CASE l.lex = "int" ->
            IF l.n > I64Max THEN J("NegInt", l.n - (U64Max + 1), "")
            ELSE IF l.n >= 0 THEN J("PosInt", l.n, "") ELSE J("NegInt", l.n, "")
      [] l.lex = "float" -> IF FiniteFloat(l.s) THEN J("Float", 0, l.s) ELSE J("Null", 0, "")
      [] l.lex = "null" -> J("Null", 0, "")
      [] l.lex = "bool" -> J("Bool", 0, l.s)
      [] l.lex = "str" -> J("String", 0, l.s)
      [] l.lex = "seq" -> J("Array", 0, "")
      [] l.lex = "map" -> J("Object", 0, "")
      [] l.lex = "opaque" -> J("Opaque", 0, "")

ParseYamlLexeme(l) ==
    CASE l.lex = "int" -> IF l.n >= 0 THEN J("PosInt", l.n, "") ELSE J("NegInt", l.n, "")
      [] l.lex = "float" -> IF FiniteFloat(l.s) THEN J("Float", 0, l.s) ELSE J("Null", 0, "")
      [] l.lex = "null" -> J("Null", 0, "")
      [] l.lex = "bool" -> J("Bool", 0, l.s)
      [] l.lex = "str" -> J("String", 0, l.s)
      [] l.lex = "seq" -> J("Array", 0, "")
      [] l.lex = "map" -> J("Object", 0, "")
      [] l.lex = "opaque" -> J("Opaque", 0, "")

\* serde_yaml::from_str::<BTreeMap<String, serde_json::Value>>
SerdeYamlFromStr(text) ==
    IF text.kind = "bad"
    THEN Err(LibErr("serde_yaml", text.msg))
    ELSE Ok([k \in BodyKeys(text.body) |-> ParseYamlLexeme(CollectMap(text.body)[k])])

\* a from_yaml that extends the current context instead of a new one
FromYamlInto(text) ==
    LET parsed == SerdeYamlFromStr(text)
    IN  IF parsed.kind = "Err"
        THEN Err(FromSerdeYamlError(parsed.err))
        ELSE LET conv == [k \in DOMAIN parsed.val |-> DeserializeJsonValue(parsed.val[k])]
             IN  IF AnyErr(conv) THEN Panic ELSE Ok(Extend(data, Unwrapped(conv)))

FromYaml(text) ==
    LET parsed == SerdeYamlFromStr(text)
    IN  IF parsed.kind = "Err"
        THEN Err(FromSerdeYamlError(parsed.err))
        ELSE LET conv == [k \in DOMAIN parsed.val |-> DeserializeJsonValue(parsed.val[k])]
             IN  IF AnyErr(conv) THEN Panic ELSE Ok(Extend(New, Unwrapped(conv)))

ToYaml(d) ==
    LET m == Inner(d)
        ks == KeysOf(m)
    IN  Ok(Doc("block", [i \in 1..Len(ks) |-> Entry(ks[i], SerializeYaml(m[ks[i]]))]))

(***************************************************************************)
(* Input texts                                                             *)
(***************************************************************************)
BadTexts == {Bad("expected value"), Bad("unexpected end")}

\* one entry over all, two entries (any keys, any order) over few
Bodies(all, few) ==
    {<< >>}
    \cup {<<Entry(k, l)>> : k \in Keys, l \in all}
    \cup {<<Entry(k1, l1), Entry(k2, l2)>> : k1 \in Keys, k2 \in Keys, l1 \in few, l2 \in few}

JsonTexts ==
    BadTexts \cup
    {Doc("compact", b) : b \in Bodies(
        {Ln("int", 1), Ln("int", -1), Ls("float", "f_short"), Ln("null", 0),
         Ls("bool", "true"), Ls("str", "test"), Ln("seq", 0), Ln("opaque", 0)},
        {Ln("int", 1), Ls("str", "test")})}

TomlTexts ==
    BadTexts \cup
    {Doc("compact", b) : b \in Bodies(
        {Ln("int", 1), Ln("int", I64Max + 1), Ls("float", "f_short"),
         Ls("bool", "true"), Ls("str", "test"), Ln("seq", 0), Ln("datetime", 0)},
        {Ln("int", 1), Ls("str", "test")})}

\* no YAML input repeats a key
YamlTexts ==
    BadTexts \cup
    {Doc("block", b) : b \in {x \in Bodies(
        {Ln("int", 1), Ln("int", -1), Ls("float", "f_short"), Ls("float", "nan"),
         Ln("null", 0), Ls("bool", "true"), Ls("str", "test"), Ln("opaque", 0)},
        {Ln("int", 1), Ls("str", "test")}) : ~HasDuplicate(x)}}

(***************************************************************************)
(* Operations                                                              *)
(***************************************************************************)
Init ==
    /\ data = New
    /\ written = {}
    /\ ret = [op |-> "new"]
    /\ snap = None
    /\ hist = << >>

NewOp ==
    /\ data' = New
    /\ written' = {}
    /\ ret' = [op |-> "new"]
    /\ UNCHANGED snap

InsertOp(k, v) ==
    /\ data' = Insert(data, k, v)
    /\ written' = written \cup {k}
    /\ ret' = [op |-> "insert", k |-> k, v |-> v, old |-> Get(data, k),
               n0 |-> Cardinality(DOMAIN data)]
    /\ UNCHANGED snap

GetOp(k) ==
    /\ ret' = [op |-> "get", k |-> k, val |-> Get(data, k)]
    /\ UNCHANGED <<data, written, snap>>

ExtendOp(m) ==
    /\ data' = Extend(data, m)
    /\ written' = written \cup DOMAIN m
    /\ ret' = [op |-> "extend", m |-> m, d0 |-> data]
    /\ UNCHANGED snap

InnerOp ==
    /\ ret' = [op |-> "inner", val |-> Inner(data)]
    /\ UNCHANGED <<data, written, snap>>

\* the text handed to from_X: any input text, or the text the last to_X returned
Returned(op) == IF ret.op = op /\ ret.res.kind = "Ok" THEN {ret.res.val} ELSE {}

ToJsonOp(pretty) ==
    /\ ret' = [op |-> "to_json", res |-> ToJson(data, pretty)]
    /\ UNCHANGED <<data, written, snap>>

FromJsonOp(text) ==
    /\ ret' = [op |-> "from_json", text |-> text, res |-> FromJson(text)]
    /\ UNCHANGED <<data, written, snap>>

\* a to_toml that takes the map out of the context and loses it on failure
ToTomlOpConsuming(pretty) ==
    /\ ret' = [op |-> "to_toml", res |-> ToToml(data, pretty)]
    /\ data' = IF ToToml(data, pretty).kind = "Ok" THEN data ELSE New
    /\ UNCHANGED <<written, snap>>

ToTomlOp(pretty) ==
    /\ ret' = [op |-> "to_toml", res |-> ToToml(data, pretty)]
    /\ UNCHANGED <<data, written, snap>>

FromTomlOp(text) ==
    /\ ret' = [op |-> "from_toml", text |-> text, res |-> FromToml(text)]
    /\ UNCHANGED <<data, written, snap>>

ToYamlOp ==
    /\ ret' = [op |-> "to_yaml", res |-> ToYaml(data)]
    /\ UNCHANGED <<data, written, snap>>

FromYamlOp(text) ==
    /\ ret' = [op |-> "from_yaml", text |-> text, res |-> FromYaml(text)]
    /\ UNCHANGED <<data, written, snap>>

\* `let error: Error = lib_error.into()`
IntoOp(e) ==
    /\ ret' = [op |-> "into", from |-> e, res |-> ErrorFrom(e)]
    /\ UNCHANGED <<data, written, snap>>

\* a handle onto the context's own map
InnerHandleShared(d) == [ref |-> "self", val |-> Inner(d)]

\* the map inner() hands out is an owned copy (`self.data.clone()`), not a
\* view of the context's own map
InnerHandle(d) == [ref |-> "copy", val |-> Inner(d)]

\* what a held handle shows
Contents(h) == IF h.ref = "self" THEN data ELSE h.val

\* `let s = ctx.inner();` with s kept by the caller
InnerHoldOp ==
    /\ snap' = Some(InnerHandle(data))
    /\ ret' = [op |-> "inner", val |-> Inner(data)]
    /\ UNCHANGED <<data, written>>

\* `s.insert(k, v)` on the held map
SnapInsertOp(k, v) ==
    /\ snap.some
    /\ ret' = [op |-> "snap_insert", k |-> k, v |-> v]
    /\ IF snap.v.ref = "self"
       THEN data' = Insert(data, k, v) /\ snap' = snap
       ELSE data' = data /\ snap' = Some([ref |-> "copy", val |-> Insert(snap.v.val, k, v)])
    /\ UNCHANGED written

\* the held map goes out of scope
SnapDropOp ==
    /\ snap.some
    /\ snap' = None
    /\ ret' = [op |-> "snap_drop"]
    /\ UNCHANGED <<data, written>>

Next ==
    \/ NewOp /\ UNCHANGED hist
    \/ \E k \in Keys, v \in ScalarValues : InsertOp(k, v) /\ UNCHANGED hist
    \/ \E k \in LookupKeys : GetOp(k) /\ UNCHANGED hist
    \/ \E m \in ExtendArgs : ExtendOp(m) /\ UNCHANGED hist
    \/ InnerOp /\ UNCHANGED hist
    \/ \E pretty \in BOOLEAN : ToJsonOp(pretty) /\ UNCHANGED hist
    \/ \E text \in JsonTexts \cup Returned("to_json") : FromJsonOp(text) /\ UNCHANGED hist
    \/ \E pretty \in BOOLEAN : ToTomlOp(pretty) /\ UNCHANGED hist
    \/ \E text \in TomlTexts \cup Returned("to_toml") : FromTomlOp(text) /\ UNCHANGED hist
    \/ ToYamlOp /\ UNCHANGED hist
    \/ \E text \in YamlTexts \cup Returned("to_yaml") : FromYamlOp(text) /\ UNCHANGED hist
    \/ \E lib \in Libs, msg \in {t.msg : t \in BadTexts} : IntoOp(LibErr(lib, msg)) /\ UNCHANGED hist

Spec == Init /\ [][Next]_vars

\* a caller that keeps and edits the maps inner() returns
NextInner ==
    \/ \E k \in Keys, v \in ExtendValues : InsertOp(k, v) /\ UNCHANGED hist
    \/ \E m \in ExtendArgs : ExtendOp(m) /\ UNCHANGED hist
    \/ InnerHoldOp /\ UNCHANGED hist
    \/ \E k \in Keys, v \in ExtendValues : SnapInsertOp(k, v) /\ UNCHANGED hist
    \/ SnapDropOp /\ UNCHANGED hist

SpecInner == Init /\ [][NextInner]_vars

\* one recorded write: the entries it wrote
Write(op, w) == [op |-> op, w |-> w]
\* a number and a nested map (Value::Map)
HistValues == {Vn("I64", 1), Vn("Map", 0)}

\* `let mut ctx = T::new();`: a history starts
HistNewOp == NewOp /\ hist' = << >>

HistInsertOp(k, v) ==
    /\ Len(hist) < MaxHist
    /\ InsertOp(k, v)
    /\ hist' = Append(hist, Write("insert", [x \in {k} |-> v]))

HistExtendOp(m) ==
    /\ Len(hist) < MaxHist
    /\ ExtendOp(m)
    /\ hist' = Append(hist, Write("extend", m))

\* a context written and read over its lifetime, its writes recorded
NextHist ==
    \/ HistNewOp
    \/ \E k \in Keys, v \in HistValues : HistInsertOp(k, v)
    \/ \E m \in MapsOver(HistValues) : HistExtendOp(m)
    \/ \E k \in LookupKeys : GetOp(k) /\ UNCHANGED hist
    \/ InnerOp /\ UNCHANGED hist
    \/ \E pretty \in BOOLEAN : ToJsonOp(pretty) /\ UNCHANGED hist
    \/ \E pretty \in BOOLEAN : ToTomlOp(pretty) /\ UNCHANGED hist
    \/ ToYamlOp /\ UNCHANGED hist

SpecHist == Init /\ [][NextHist]_vars

(***************************************************************************)
(* Properties                                                              *)
(***************************************************************************)
Formats == {"json", "toml", "yaml"}
FromOps == {"from_json", "from_toml", "from_yaml"}
ToOps == {"to_json", "to_toml", "to_yaml"}

ToText(d, X) ==
    CASE X = "json" -> ToJson(d, FALSE)
      [] X = "toml" -> ToToml(d, FALSE)
      [] X = "yaml" -> ToYaml(d)

FromText(text, X) ==
    CASE X = "json" -> FromJson(text)
      [] X = "toml" -> FromToml(text)
      [] X = "yaml" -> FromYaml(text)

\* from_X(to_X(d)).inner() == d.inner(), tags included
RoundTrip(d, X) ==
    /\ ToText(d, X).kind = "Ok"
    /\ FromText(ToText(d, X).val, X).kind = "Ok"
    /\ Inner(FromText(ToText(d, X).val, X).val) = Inner(d)

\* the values that carry the tag the parser of X gives them
ParserTagged(v, X) ==
    \/ v.tag \in {"String", "Bool"}
    \/ X \in {"json", "yaml"} /\ v.tag = "U64"
    \/ X \in {"json", "yaml"} /\ v.tag = "I64" /\ v.n < 0
    \/ X = "toml" /\ v.tag = "I64"
    \/ X = "toml" /\ v.tag = "F64"
    \/ X = "yaml" /\ v.tag = "F64" /\ FiniteFloat(v.s)

\* C1 as stated: every context of scalar values round-trips through every
\* format, to_X succeeding and the value tags preserved.
C1_RoundTripAllScalars == \A X \in Formats : RoundTrip(data, X)

\* C1 as amended: a context round-trips through format X, tags included,
\* when every value is a string, a boolean, an integer tagged as X's parser
\* tags it (JSON, YAML: U64 from 0 up, I64 below 0; TOML: I64), or an F64
\* float (TOML: any; YAML: finite; JSON: not covered).
C1_RoundTripParserTagged ==
    \A X \in Formats :
        (\A k \in DOMAIN data : ParserTagged(data[k], X)) => RoundTrip(data, X)

C1_Witness ==
    /\ ret.op = "from_json"
    /\ DOMAIN data = Keys
    /\ \E k \in Keys : data[k].tag = "U64"
    /\ \A k \in Keys : ParserTagged(data[k], "json")
    /\ ret.text = ToJson(data, FALSE).val
    /\ ret.res = Ok(Inner(data))

\* C2: after insert(k, v), get(k) is v whether or not k was present, and
\* the key has one entry: the size grew by one for a new key and not at all
\* for an existing one.
C2_InsertThenGet ==
    ret.op = "insert" =>
        /\ Get(data, ret.k) = Some(ret.v)
        /\ Cardinality(DOMAIN data) = ret.n0 + (IF ret.old.some THEN 0 ELSE 1)

C2_Witness ==
    /\ ret.op = "insert"
    /\ ret.old.some
    /\ ret.old.v # ret.v
    /\ Get(data, ret.k) = Some(ret.v)

\* C3: after extend(m) on contents d0, every key of m reads m's value, every
\* other key of d0 reads d0's value, and the keys are those of d0 and m.
C3_ExtendMerges ==
    ret.op = "extend" =>
        /\ \A k \in DOMAIN ret.m : Get(data, k) = Some(ret.m[k])
        /\ \A k \in DOMAIN ret.d0 \ DOMAIN ret.m : Get(data, k) = Some(ret.d0[k])
        /\ DOMAIN data = DOMAIN ret.d0 \cup DOMAIN ret.m

C3_Witness ==
    /\ ret.op = "extend"
    /\ \E k \in DOMAIN ret.m \cap DOMAIN ret.d0 :
          ret.m[k] # ret.d0[k] /\ data[k] = ret.m[k]
    /\ \E k \in DOMAIN ret.d0 \ DOMAIN ret.m : data[k] = ret.d0[k]

\* C4: get returns an Option, and None for a key no insert or extend wrote.
C4_GetAbsent ==
    ret.op = "get" =>
        /\ ret.val = None \/ (ret.val.some /\ ret.val = Some(ret.val.v))
        /\ ret.k \notin written => ret.val = None

C4_Witness ==
    /\ ret.op = "get"
    /\ written # {}
    /\ ret.k \in Keys \ written
    /\ ret.val = None

\* C5: a context made by new() has an empty inner() and get is absent for
\* every key.
C5_NewIsEmpty ==
    ret.op = "new" =>
        /\ DOMAIN Inner(data) = {}
        /\ \A k \in LookupKeys : Get(data, k) = None

C5_Witness == ret.op = "new" /\ Inner(data) = EmptyMap

\* C6: inner() is the full map: its keys are those get finds, its size is
\* the number of keys written, and each entry is what get returns.
C6_InnerIsFullMap ==
    ret.op = "inner" =>
        /\ DOMAIN ret.val = {k \in LookupKeys : Get(data, k).some}
        /\ Cardinality(DOMAIN ret.val) = Cardinality(written)
        /\ \A k \in DOMAIN ret.val : Some(ret.val[k]) = Get(data, k)

C6_Witness == ret.op = "inner" /\ DOMAIN ret.val = Keys

\* C7: a map returned by inner() is not changed by a later insert or extend
\* on the context, and editing it does not change the context.
C7_InnerIsIndependent ==
    [][/\ (snap.some /\ ((\E k \in Keys, v \in ExtendValues : InsertOp(k, v))
                         \/ (\E m \in ExtendArgs : ExtendOp(m))))
          => (snap'.some /\ Contents(snap.v)' = Contents(snap.v))
       /\ (\E k \in Keys, v \in ExtendValues : SnapInsertOp(k, v)) => data' = data]_vars

C7_Witness ==
    /\ snap.some
    /\ ret.op = "insert"
    /\ ret.k \notin DOMAIN Contents(snap.v)
    /\ ret.k \in DOMAIN data

Malformed(text, X) ==
    CASE X = "json" -> SerdeJsonFromStr(text).kind = "Err"
      [] X = "toml" -> TomlFromStr(text).kind = "Err"
      [] X = "yaml" -> SerdeYamlFromStr(text).kind = "Err"

FormatOf(op) ==
    CASE op \in {"from_json", "to_json"} -> "json"
      [] op \in {"from_toml", "to_toml"} -> "toml"
      [] op \in {"from_yaml", "to_yaml"} -> "yaml"

TagOf(X) ==
    CASE X = "json" -> "Json"
      [] X = "toml" -> "Toml"
      [] X = "yaml" -> "Yaml"

\* C8: from_X on a text X's parser rejects returns an error tagged X and no
\* context.
C8_MalformedIsTaggedError ==
    (ret.op \in FromOps /\ Malformed(ret.text, FormatOf(ret.op))) =>
        /\ ret.res.kind = "Err"
        /\ ret.res.err.tag = TagOf(FormatOf(ret.op))

C8_Witness ==
    /\ ret.op = "from_toml"
    /\ ret.text.kind = "doc"
    /\ HasDuplicate(ret.text.body)
    /\ ret.res = Err(Error("Toml", "duplicate key"))

KindOf(lib) ==
    CASE lib = "serde_json" -> "Json"
      [] lib \in {"toml::ser", "toml::de"} -> "Toml"
      [] lib = "serde_yaml" -> "Yaml"
      [] lib \in {"InvalidHeaderValue", "InvalidHeaderName"} -> "Http"

\* C10: a library error converts to the Error of its format with the same
\* message, and an error returned by from_X or to_X is tagged X; the error
\* of a rejected text carries the parser's message.
C10_ErrorsKeepFormatAndMessage ==
    /\ ret.op = "into" => ret.res = Error(KindOf(ret.from.lib), ret.from.msg)
    /\ (ret.op \in FromOps \cup ToOps /\ ret.res.kind = "Err") =>
            ret.res.err.tag = TagOf(FormatOf(ret.op))
    /\ (ret.op \in FromOps /\ ret.text.kind = "bad") =>
            ret.res = Err(Error(TagOf(FormatOf(ret.op)), ret.text.msg))

C10_Witness ==
    /\ ret.op = "from_yaml"
    /\ ret.text.kind = "bad"
    /\ ret.res = Err(Error("Yaml", ret.text.msg))

ToTextLayout(d, X, pretty) ==
    CASE X = "json" -> ToJson(d, pretty)
      [] X = "toml" -> ToToml(d, pretty)
      [] X = "yaml" -> ToYaml(d)

\* the values the serialization tests store for format X
TestTagged(v, X) ==
    \/ v.tag \in {"String", "Bool"}
    \/ X \in {"json", "yaml"} /\ v.tag = "U64"
    \/ X = "toml" /\ v.tag = "I64"

\* C12: a context of strings, booleans and integers in the tag the tests use
\* for format X (U64 for JSON and YAML, I64 for TOML) is serialized by to_X,
\* compact or pretty, and parsed back by from_X into a context with an equal
\* inner(), so get(k) agrees with the original for every key k.
C12_TestTaggedRoundTrip ==
    \A X \in Formats :
        (\A k \in DOMAIN data : TestTagged(data[k], X)) =>
            \A pretty \in BOOLEAN :
                /\ ToTextLayout(data, X, pretty).kind = "Ok"
                /\ FromText(ToTextLayout(data, X, pretty).val, X).kind = "Ok"
                /\ Inner(FromText(ToTextLayout(data, X, pretty).val, X).val) = Inner(data)
                /\ \A k \in LookupKeys :
                      Get(FromText(ToTextLayout(data, X, pretty).val, X).val, k) = Get(data, k)

\* the pretty TOML text of a context holding a signed integer and a string
\* has just been parsed back into an equal context
C12_Witness ==
    /\ DOMAIN data = Keys
    /\ data["key1"].tag = "I64"
    /\ data["key2"].tag = "String"
    /\ ret.op = "from_toml"
    /\ ret.res.kind = "Ok"
    /\ ToToml(data, TRUE).kind = "Ok"
    /\ ret.text = ToToml(data, TRUE).val
    /\ Inner(ret.res.val) = Inner(data)

\* the context a history of writes builds from new()
RECURSIVE Replay(_)
Replay(h) ==
    IF h = << >> THEN New
    ELSE LET d == Replay(SubSeq(h, 1, Len(h) - 1))
             e == h[Len(h)]
         IN  IF e.op = "insert"
             THEN LET k == CHOOSE x \in DOMAIN e.w : TRUE IN Insert(d, k, e.w[k])
             ELSE Extend(d, e.w)

\* the place of a key in the natural order of the keys
Rank(k) == CHOOSE i \in DOMAIN KeySeq : KeySeq[i] = k
SortedKeys(ks) == \A i, j \in DOMAIN ks : i < j => Rank(ks[i]) < Rank(ks[j])
BodyKeySeq(body) == [i \in DOMAIN body |-> body[i].k]

DistinctKeys(h) ==
    \A i, j \in DOMAIN h : i < j => DOMAIN h[i].w \cap DOMAIN h[j].w = {}
Perms(n) == {p \in [1..n -> 1..n] : \A i, j \in 1..n : p[i] = p[j] => i = j}
Permuted(h, p) == [i \in DOMAIN h |-> h[p[i]]]

\* C13 as stated: the entries of inner() and of every serialized text are in
\* the natural order of the keys; a context built by the same writes to
\* distinct keys in any other order has an equal inner() and identical
\* to_json, to_toml and to_yaml results.
C13_SortedWhateverTheOrder ==
    /\ data = Replay(hist)
    /\ SortedKeys(KeysOf(Inner(data)))
    /\ \A X \in Formats, pretty \in BOOLEAN :
          ToTextLayout(data, X, pretty).kind = "Ok" =>
              /\ SortedKeys(BodyKeySeq(ToTextLayout(data, X, pretty).val.body))
              /\ BodyKeys(ToTextLayout(data, X, pretty).val.body) = DOMAIN data
    /\ DistinctKeys(hist) =>
          \A p \in Perms(Len(hist)) :
              /\ Inner(Replay(Permuted(hist, p))) = Inner(data)
              /\ \A X \in Formats, pretty \in BOOLEAN :
                    ToTextLayout(Replay(Permuted(hist, p)), X, pretty)
                        = ToTextLayout(data, X, pretty)

ScalarValued(d) == \A k \in DOMAIN d : d[k].tag # "Map"

\* C13 as amended: the entries of inner(), of the JSON text and of the YAML
\* text are in the natural order of the keys, and so are those of the TOML
\* text when every value is a scalar; every text holds exactly the keys of
\* the context; a context built by the same writes to distinct keys in any
\* other order has an equal inner() and identical to_json, to_toml and
\* to_yaml results.
C13_SortedScalarsWhateverTheOrder ==
    /\ data = Replay(hist)
    /\ SortedKeys(KeysOf(Inner(data)))
    /\ \A X \in Formats, pretty \in BOOLEAN :
          ToTextLayout(data, X, pretty).kind = "Ok" =>
              /\ BodyKeys(ToTextLayout(data, X, pretty).val.body) = DOMAIN data
              /\ Len(ToTextLayout(data, X, pretty).val.body) = Cardinality(DOMAIN data)
              /\ X \in {"json", "yaml"} \/ ScalarValued(data) =>
                    SortedKeys(BodyKeySeq(ToTextLayout(data, X, pretty).val.body))
    /\ DistinctKeys(hist) =>
          \A p \in Perms(Len(hist)) :
              /\ Inner(Replay(Permuted(hist, p))) = Inner(data)
              /\ \A X \in Formats, pretty \in BOOLEAN :
                    ToTextLayout(Replay(Permuted(hist, p)), X, pretty)
                        = ToTextLayout(data, X, pretty)

\* key2 was inserted before key1, and the JSON text just returned lists key1
\* first
C13_Witness ==
    /\ Len(hist) = 2
    /\ hist[1].op = "insert" /\ DOMAIN hist[1].w = {"key2"}
    /\ hist[2].op = "insert" /\ DOMAIN hist[2].w = {"key1"}
    /\ ret.op = "to_json"
    /\ ret.res.kind = "Ok"
    /\ BodyKeySeq(ret.res.val.body) = <<"key1", "key2">>

\* the value the most recent write of key k in history h gave it
RECURSIVE LastWrite(_, _)
LastWrite(h, k) ==
    IF h = << >> THEN None
    ELSE IF k \in DOMAIN h[Len(h)].w THEN Some(h[Len(h)].w[k])
    ELSE LastWrite(SubSeq(h, 1, Len(h) - 1), k)

\* C16: after any sequence of insert and extend operations from new(), get(k)
\* is the value the most recent operation that wrote k gave it, and is absent
\* exactly when no operation of the sequence wrote k.
C16_LastWriterWins ==
    /\ \A k \in LookupKeys :
          /\ Get(data, k) = LastWrite(hist, k)
          /\ Get(data, k) = None <=> \A i \in DOMAIN hist : k \notin DOMAIN hist[i].w
    /\ ret.op = "get" => ret.val = LastWrite(hist, ret.k)

\* key1 was written by an insert, then by an extend with another value, then
\* key2 was inserted; get(key1) has just returned the extend's value
C16_Witness ==
    /\ Len(hist) = 3
    /\ hist[1].op = "insert" /\ DOMAIN hist[1].w = {"key1"}
    /\ hist[2].op = "extend" /\ DOMAIN hist[2].w = {"key1"}
    /\ hist[1].w["key1"] # hist[2].w["key1"]
    /\ hist[3].op = "insert" /\ DOMAIN hist[3].w = {"key2"}
    /\ ret.op = "get"
    /\ ret.k = "key1"
    /\ ret.val = Some(hist[2].w["key1"])

\* C14: a successful from_X(text) returns a new empty context extended once
\* with the converted entries of the document: its keys are exactly the
\* top-level keys of the text, whatever the context at hand holds.
C14_FromBuildsFreshContext ==
    ret.op \in FromOps /\ ret.res.kind = "Ok" =>
        /\ ret.text.kind = "doc"
        /\ DOMAIN ret.res.val = BodyKeys(ret.text.body)
        /\ ret.res.val = FromText(ret.text, FormatOf(ret.op)).val

\* from_yaml of a document with the only key key1 has just returned a context
\* with the only key key1 while another context holds key2
C14_Witness ==
    /\ ret.op = "from_yaml"
    /\ ret.res.kind = "Ok"
    /\ BodyKeys(ret.text.body) = {"key1"}
    /\ DOMAIN ret.res.val = {"key1"}
    /\ "key2" \in DOMAIN data

ReadOps == {"get", "inner"} \cup ToOps

\* C15: get, inner, to_json, to_toml and to_yaml leave the context as it was,
\* whether they succeed or fail: inner() before and after is equal, and what
\* a serializer returns is computed from the map inner() returned.
C15_ReadsLeaveContext ==
    [][ret'.op \in ReadOps =>
          /\ Inner(data') = Inner(data)
          /\ ret'.op = "inner" => ret'.val = Inner(data)
          /\ ret'.op = "get" => ret'.val = Get(data, ret'.k)
          /\ ret'.op = "to_json" => \E pretty \in BOOLEAN : ret'.res = ToJson(Inner(data), pretty)
          /\ ret'.op = "to_toml" => \E pretty \in BOOLEAN : ret'.res = ToToml(Inner(data), pretty)
          /\ ret'.op = "to_yaml" => ret'.res = ToYaml(Inner(data))]_vars

\* to_toml has just failed on a context that still holds its entries
C15_Witness ==
    /\ ret.op = "to_toml"
    /\ ret.res.kind = "Err"
    /\ DOMAIN data = Keys
    /\ written = Keys

InterfaceOps == {"insert", "extend"} \cup ReadOps

\* C17: no insert, extend, get, inner or to_X removes a key: a key present
\* before the operation is present after it, and the number of entries does
\* not decrease.
C17_KeysOnlyGrow ==
    [][ret'.op \in InterfaceOps =>
          /\ DOMAIN data \subseteq DOMAIN data'
          /\ \A k \in LookupKeys : Get(data, k) # None => Get(data', k) # None
          /\ Cardinality(DOMAIN data') >= Cardinality(DOMAIN data)]_vars

\* an extend that wrote key1 alone has left key2 in place
C17_Witness ==
    /\ ret.op = "extend"
    /\ DOMAIN ret.m = {"key1"}
    /\ DOMAIN ret.d0 = Keys
    /\ DOMAIN data = Keys
    /\ data["key2"] = ret.d0["key2"]

\* insert(k, m[k]) for the keys of m in the order ks
RECURSIVE InsertAll(_, _, _)
InsertAll(d, m, ks) ==
    IF ks = << >> THEN d
    ELSE InsertAll(Insert(d, ks[1], m[ks[1]]), m, SubSeq(ks, 2, Len(ks)))

KeyOrders(m) == {Permuted(KeysOf(m), p) : p \in Perms(Len(KeysOf(m)))}

\* C18: extend(m) leaves the context with the inner() that insert(k, m[k])
\* for every key k of m, in any order, leaves it with; extend with an empty
\* mapping changes nothing, and extend(m) applied twice gives the state
\* extend(m) applied once gives.
C18_ExtendIsInsertAll ==
    /\ \A m \in ExtendArgs :
          /\ \A ks \in KeyOrders(m) : Inner(Extend(data, m)) = Inner(InsertAll(data, m, ks))
          /\ Extend(Extend(data, m), m) = Extend(data, m)
    /\ Extend(data, EmptyMap) = data
    /\ ret.op = "extend" =>
          /\ \A ks \in KeyOrders(ret.m) : Inner(data) = Inner(InsertAll(ret.d0, ret.m, ks))
          /\ Extend(data, ret.m) = data
          /\ ret.m = EmptyMap => data = ret.d0

\* an extend of two entries, one of them replacing a different value, has
\* left what inserting key2 and then key1 leaves
C18_Witness ==
    /\ ret.op = "extend"
    /\ DOMAIN ret.m = Keys
    /\ "key1" \in DOMAIN ret.d0
    /\ ret.d0["key1"] # ret.m["key1"]
    /\ Inner(data) = Inner(InsertAll(ret.d0, ret.m, <<"key2", "key1">>))

\* C19: for json and toml, when serialization succeeds, the pretty text and
\* the compact text of a context parse back to contexts with equal inner().
C19_PrettyChangesLayoutOnly ==
    \A X \in {"json", "toml"} :
        ToTextLayout(data, X, TRUE).kind = "Ok" \/ ToTextLayout(data, X, FALSE).kind = "Ok" =>
            /\ ToTextLayout(data, X, TRUE).kind = "Ok"
            /\ ToTextLayout(data, X, FALSE).kind = "Ok"
            /\ ToTextLayout(data, X, TRUE).val.body = ToTextLayout(data, X, FALSE).val.body
            /\ FromText(ToTextLayout(data, X, TRUE).val, X).kind = "Ok"
            /\ FromText(ToTextLayout(data, X, FALSE).val, X).kind = "Ok"
            /\ Inner(FromText(ToTextLayout(data, X, TRUE).val, X).val)
                   = Inner(FromText(ToTextLayout(data, X, FALSE).val, X).val)

\* the pretty JSON text of a two-entry context has just been parsed into
\* what its compact text parses into, which differs from the context itself
C19_Witness ==
    /\ DOMAIN data = Keys
    /\ ret.op = "from_json"
    /\ ret.res.kind = "Ok"
    /\ ret.text = ToJson(data, TRUE).val
    /\ ret.text # ToJson(data, FALSE).val
    /\ Inner(ret.res.val) = Inner(FromJson(ToJson(data, FALSE).val).val)
    /\ Inner(ret.res.val) # Inner(data)

\* C20: when to_X succeeds on a context of scalar values, from_X of the text
\* succeeds and returns the same keys; strings and booleans come back
\* unchanged and integers come back with the same numeric value, tagged
\* unsigned when non-negative by JSON and YAML and signed by TOML.
C20_ScalarsKeepKeysAndNumbers ==
    \A X \in Formats, pretty \in BOOLEAN :
        ToTextLayout(data, X, pretty).kind = "Ok" =>
            /\ FromText(ToTextLayout(data, X, pretty).val, X).kind = "Ok"
            /\ DOMAIN FromText(ToTextLayout(data, X, pretty).val, X).val = DOMAIN data
            /\ \A k \in DOMAIN data :
                  LET back == FromText(ToTextLayout(data, X, pretty).val, X).val[k]
                  IN  /\ data[k].tag \in {"String", "Bool"} => back = data[k]
                      /\ data[k].tag \in IntTags =>
                            /\ back.tag \in IntTags
                            /\ back.n = data[k].n
                            /\ X \in {"json", "yaml"} /\ back.n >= 0 => back.tag = "U64"
                            /\ X = "toml" => back.tag = "I64"

\* the TOML text of a context holding an unsigned 1 has just been parsed back
\* as a signed 1
C20_Witness ==
    /\ "key1" \in DOMAIN data
    /\ data["key1"] = Vn("U64", 1)
    /\ ret.op = "from_toml"
    /\ ret.res.kind = "Ok"
    /\ ToToml(data, FALSE).kind = "Ok"
    /\ ret.text = ToToml(data, FALSE).val
    /\ ret.res.val["key1"] = Vn("I64", 1)

====
